---- MODULE Spec2Model ----
(***************************************************************************)
(* Model of the speech-to-text server (server/index.js): the transcribe    *)
(* request pipeline POST /api/transcribe, the Transcription collection and *)
(* the history listing GET /api/history.                                   *)
(*                                                                         *)
(* Strings are sequences of tokens: a token is one character of a variable *)
(* text (a file name, a transcript, an error message) or one string        *)
(* literal of the source.  JavaScript runs a handler to completion between *)
(* two awaits, so one action is the code between two awaits of a handler.  *)
(***************************************************************************)
EXTENDS Integers, Sequences, FiniteSets, TLC

VARIABLES
    pc,                 \* per request: position of its handler
    file,               \* per request: req.file as multer left it
    uploads,            \* requests whose temporary file exists in uploads/
    response,           \* per request: [response] of client.recognize
    transcriptionText,  \* per request: the handler's local transcriptionText
    error,              \* per request: the error caught by the catch block
    doc,                \* per request: the document whose save() is awaited
    res,                \* per request: the HTTP response sent, if any
    store,              \* the Transcription collection, in insertion order
    now,                \* Date.now()
    history,            \* the response of the last GET /api/history
    recognizeCalls,     \* per request: number of client.recognize calls made
    unlinkCalls,        \* per request: outcomes of its fs.unlinkSync calls
    steps,              \* per request: the steps its handler took, in order
    client              \* the state of the React component App

vars == <<pc, file, uploads, response, transcriptionText, error, doc, res,
          store, now, history, recognizeCalls, unlinkCalls, steps, client>>

-----------------------------------------------------------------------------
(* Bounds *)

\* number of transcribe requests, all of which may be in flight together
NumReqs == 2

\* number of records the collection grows to in the history specification
MaxRecords == 11

\* number of POST requests the client sends in the client specification
MaxPosts == 2

\* last value of the clock in the history specification
MaxClock == 2

Reqs == 1..NumReqs

-----------------------------------------------------------------------------
(* Literals of the source *)

Sentinel == <<"No clear speech detected.">>
FailedMarker == <<" (Failed)">>
ErrorPrefix == <<"Error during transcription: ">>
Ellipsis == <<"...">>
NoFileError == <<"No audio file uploaded.">>
GenericError == <<"Transcription failed. Check server console and API credentials.">>
Newline == <<"\n">>

\* error.message.substring(0, 100)
TruncLen == 100

\* .limit(10)
HistoryLimit == 10

\* the client's upload limit, the only size limit the repository states
MaxUploadBytes == 10 * 1024 * 1024

MiB == 1024 * 1024

-----------------------------------------------------------------------------
(* Inputs *)

NoFile == [present |-> FALSE, originalname |-> <<>>, size |-> 0]

\* multer never yields a file with an empty originalname
Files ==
    { [present |-> TRUE, originalname |-> <<"a">>, size |-> 5 * MiB],
      [present |-> TRUE, originalname |-> <<"b">>, size |-> 12 * MiB] }

Alt(t) == [transcript |-> t]
Seg(alts) == [alternatives |-> alts]

\* response.results of the recognizer: every result has at least one alternative
RecognizerResults ==
    { <<>>,
      << Seg(<<Alt(<<>>)>>) >>,
      << Seg(<<Alt(<<"h">>), Alt(<<"x">>)>>), Seg(<<Alt(<<"w">>)>>) >>,
      << Seg(<<Alt(<<>>)>>), Seg(<<Alt(<<>>), Alt(<<"x">>)>>) >> }

Msg(n, c) == [i \in 1..n |-> c]

\* error.message of a rejected client.recognize call
Msgs ==
    { <<>>,
      <<"q", "u", "o", "t", "a">>,
      Msg(TruncLen, "x") \o <<"y">> }

\* a thrown error: the call that threw it and its message
Err(by, message) == [by |-> by, message |-> message]
NoError == Err("none", <<>>)
ReadError == Err("readFileSync", <<"EACCES: permission denied, open">>)
UnlinkError == Err("unlinkSync", <<"EPERM: operation not permitted, unlink">>)
DbError == Err("save", <<"MongoNetworkError">>)
ValidationError == Err("save", <<"Transcription validation failed">>)

-----------------------------------------------------------------------------
(* Pure functions *)

Min(a, b) == IF a < b THEN a ELSE b
Max(a, b) == IF a > b THEN a ELSE b

\* Array.prototype.join(sep)
RECURSIVE Join(_, _)
Join(parts, sep) ==
    IF Len(parts) = 0 THEN <<>>
    ELSE IF Len(parts) = 1 THEN parts[1]
    ELSE parts[1] \o sep \o Join(Tail(parts), sep)

\* response.results.map(result => result.alternatives[0].transcript)
FirstAlternatives(results) ==
    [i \in 1..Len(results) |-> results[i].alternatives[1].transcript]

TranscriptText_NoSeparator(results) == Join(FirstAlternatives(results), <<>>)

\* lines 63-65
TranscriptText(results) == Join(FirstAlternatives(results), Newline)

OrElse_First(a, b) == a

\* a || b on strings: the empty string is falsy
OrElse(a, b) == IF a = <<>> THEN b ELSE a

\* String.prototype.substring(start, end): both clamped to [0, length],
\* swapped when start > end
Substring(s, start, end) ==
    LET a == Min(Max(start, 0), Len(s))
        b == Min(Max(end, 0), Len(s))
        lo == Min(a, b)
        hi == Max(a, b)
    IN  SubSeq(s, lo + 1, hi)

FailureText_NoTruncation(msg) == ErrorPrefix \o msg \o Ellipsis

\* line 90
FailureText(msg) == ErrorPrefix \o Substring(msg, 0, TruncLen) \o Ellipsis

NoDoc == [id |-> <<0, "none">>, audioName |-> <<>>, transcription |-> <<>>, date |-> 0]

\* new Transcription({...}): _id and date (default Date.now) are set at construction
NewTranscription(r, f, text, t) ==
    [id |-> <<r, "new">>, audioName |-> f.originalname,
     transcription |-> OrElse(text, Sentinel), date |-> t]

FailedTranscription(r, f, msg, t) ==
    [id |-> <<r, "failed">>, audioName |-> f.originalname \o FailedMarker,
     transcription |-> FailureText(msg), date |-> t]

\* schema validation run by save(): a required String must be non-empty
Valid(d) == d.audioName # <<>> /\ d.transcription # <<>>

-----------------------------------------------------------------------------
(* Responses *)

NoResponse == [status |-> 0]
BadRequest == [status |-> 400, success |-> FALSE, error |-> NoFileError]
Ok(d) == [status |-> 200, success |-> TRUE, transcription |-> d.transcription]
ServerError(msg) ==
    [status |-> 500, success |-> FALSE, error |-> GenericError, details |-> msg]
\* what the framework does with an exception the handler lets escape:
\* nothing (the rejected promise is dropped and the request is never
\* answered), or its default error page
DefaultError(msg) == [status |-> 500, page |-> msg]

\* GET /api/history: no response being delivered, the listing, the error
NoHistory == [status |-> 0, body |-> <<>>]
HistoryOk(records) == [status |-> 200, body |-> records]
HistoryError == [status |-> 500, body |-> <<>>]

-----------------------------------------------------------------------------
(* The client: state of the component App *)

\* the value of audioFile: null, undefined (no file chosen) or a File
NullFile == [kind |-> "null", size |-> 0]
UndefinedFile == [kind |-> "undefined", size |-> 0]
File(size) == [kind |-> "file", size |-> size]

\* useState(null), useState(''), useState(false), useState(''), useState([]);
\* posting: the POST /api/transcribe awaited; fetching: the GET /api/history
\* requests awaited; posted: the files sent so far; last: the handler or
\* continuation that ran last
\* useEffect(() => { fetchHistory(); }, []) has run: one GET is awaited
InitialApp ==
    [audioFile |-> NullFile, transcription |-> <<>>, loading |-> FALSE,
     error |-> <<>>, history |-> <<>>, posting |-> 0, fetching |-> 1,
     posted |-> <<>>, last |-> "mount"]

SizeError == <<"File size exceeds 10MB. Please upload a smaller file.">>
NoFileSelected == <<"Please select an audio file (WAV or FLAC recommended).">>
UnknownError == <<"Unknown server or API error occurred.">>
HistoryLoadError == <<"Failed to load history. Check server connection.">>

\* event.target.files[0]: nothing chosen, or a file of one of these sizes
Selections ==
    {UndefinedFile, File(5 * MiB), File(MaxUploadBytes), File(MaxUploadBytes + 1)}

\* err.response?.data?.error of a failed POST: absent, or the server's text
PostErrors == {<<>>, NoFileError, GenericError}

\* response.data.transcription of a successful POST
PostTexts == {Sentinel, <<"h">>}

\* response.data of a successful GET /api/history
Listing == <<"records">>

\* !audioFile
Falsy(f) == f.kind # "file"

TooLarge_Never(f) == FALSE

\* file && file.size > 10 * 1024 * 1024
TooLarge(f) == ~Falsy(f) /\ f.size > MaxUploadBytes

\* handleFileChange
HandleFileChange(c, f) ==
    IF TooLarge(f)
    THEN [c EXCEPT !.error = SizeError, !.audioFile = NullFile,
                   !.last = "fileRejected"]
    ELSE [c EXCEPT !.audioFile = f, !.transcription = <<>>, !.error = <<>>,
                   !.last = "fileSelected"]

\* handleSubmit up to the await of axios.post
HandleSubmit(c) ==
    IF Falsy(c.audioFile)
    THEN [c EXCEPT !.error = NoFileSelected, !.last = "submitRefused"]
    ELSE [c EXCEPT !.loading = TRUE, !.transcription = <<>>, !.error = <<>>,
                   !.posting = @ + 1, !.posted = Append(@, c.audioFile),
                   !.last = "submitted"]

SubmitEnabled_WhileLoading(c) == ~Falsy(c.audioFile)

\* the submit button: disabled={!audioFile || loading}
SubmitEnabled(c) == ~(Falsy(c.audioFile) \/ c.loading)

-----------------------------------------------------------------------------
(* State *)

Init ==
    /\ pc = [r \in Reqs |-> "idle"]
    /\ file = [r \in Reqs |-> NoFile]
    /\ uploads = {}
    /\ response = [r \in Reqs |-> <<>>]
    /\ transcriptionText = [r \in Reqs |-> <<>>]
    /\ error = [r \in Reqs |-> NoError]
    /\ doc = [r \in Reqs |-> NoDoc]
    /\ res = [r \in Reqs |-> NoResponse]
    /\ store = <<>>
    /\ now = 0
    /\ history = NoHistory
    /\ recognizeCalls = [r \in Reqs |-> 0]
    /\ unlinkCalls = [r \in Reqs |-> <<>>]
    /\ steps = [r \in Reqs |-> <<>>]
    /\ client = InitialApp

-----------------------------------------------------------------------------
(* POST /api/transcribe *)

\* the steps request r takes in one stretch of its handler, in the order of
\* the code: the save() awaited has appended its record before the code after
\* the await runs (lines 72, 92), then come the unlinkSync calls (lines 75,
\* 83), then the response of the handler (lines 33, 77, 95)
NewSteps_RespondFirst(r, appended, calls, responded) ==
    (IF responded THEN <<"respond">> ELSE <<>>)
    \o (IF appended = <<>> THEN <<>>
        ELSE IF appended[1].id[2] = "new" THEN <<"appendNew">>
        ELSE <<"appendFailed">>)
    \o [i \in 1..Len(calls) |-> IF calls[i] THEN "unlink" ELSE "unlinkThrew"]

NewSteps(r, appended, calls, responded) ==
    (IF appended = <<>> THEN <<>>
     ELSE IF appended[1].id[2] = "new" THEN <<"appendNew">>
     ELSE <<"appendFailed">>)
    \o [i \in 1..Len(calls) |-> IF calls[i] THEN "unlink" ELSE "unlinkThrew"]
    \o (IF responded THEN <<"respond">> ELSE <<>>)

\* the stretch of the handler of request r that this step runs, recorded
Log(r) ==
    steps' = [steps EXCEPT ![r] =
        @ \o NewSteps(r,
                      SubSeq(store', Len(store) + 1, Len(store')),
                      SubSeq(unlinkCalls'[r], Len(unlinkCalls[r]) + 1,
                             Len(unlinkCalls'[r])),
                      pc'[r] = "done")]

\* upload.single('audioFile') with multer({ dest }): no limits are configured,
\* so a file of any size is written to uploads/ before the handler runs; a
\* request without the file field leaves req.file undefined and writes nothing
Upload(r) ==
    /\ pc[r] = "idle"
    /\ \E f \in Files \cup {NoFile} :
         /\ file' = [file EXCEPT ![r] = f]
         /\ uploads' = IF f.present THEN uploads \cup {r} ELSE uploads
    /\ pc' = [pc EXCEPT ![r] = "uploaded"]
    /\ UNCHANGED <<response, transcriptionText, error, doc, res, store, now,
                   history, recognizeCalls, unlinkCalls>>
    /\ Log(r)
    /\ UNCHANGED client

\* an exception leaves the async handler: its promise rejects and the
\* handler sends nothing itself
Escape(r, err) ==
    /\ pc' = [pc EXCEPT ![r] = "rejected"]
    /\ \E out \in {NoResponse, DefaultError(err.message)} :
         res' = [res EXCEPT ![r] = out]

\* fs.existsSync(audioPath)
ExistsSync_Never(r) == FALSE

ExistsSync(r) == r \in uploads

AfterCleanup_AlwaysRecord(r, err) ==
    /\ doc' = [doc EXCEPT ![r] =
           FailedTranscription(r, file[r], err.message, now)]
    /\ pc' = [pc EXCEPT ![r] = "savingFailed"]
    /\ res' = res

\* lines 86-99 up to the next await: the failure record is built only when
\* no transcript text was computed
AfterCleanup(r, err) ==
    IF transcriptionText[r] = <<>> /\ file[r].present
    THEN /\ doc' = [doc EXCEPT ![r] =
                FailedTranscription(r, file[r], err.message, now)]
         /\ pc' = [pc EXCEPT ![r] = "savingFailed"]
         /\ res' = res
    ELSE /\ doc' = doc
         /\ pc' = [pc EXCEPT ![r] = "done"]
         /\ res' = [res EXCEPT ![r] = ServerError(err.message)]

\* catch (error) { ... }, lines 78-93: err is the error caught, calls the
\* outcomes of the unlinkSync calls the request has made so far.  An
\* unlinkSync that throws here is inside no try block.
CatchBlock(r, err, calls) ==
    /\ error' = [error EXCEPT ![r] = err]
    /\ IF ExistsSync(r)
       THEN \E deleted \in BOOLEAN :
              /\ unlinkCalls' = [unlinkCalls EXCEPT ![r] = Append(calls, deleted)]
              /\ IF deleted
                 THEN /\ uploads' = uploads \ {r}
                      /\ AfterCleanup(r, err)
                 ELSE /\ uploads' = uploads
                      /\ doc' = doc
                      /\ Escape(r, UnlinkError)
       ELSE /\ unlinkCalls' = [unlinkCalls EXCEPT ![r] = calls]
            /\ uploads' = uploads
            /\ AfterCleanup(r, err)

\* if (!req.file)
NoFileGuard_Never(f) == FALSE

NoFileGuard(f) == ~f.present

\* lines 32-60: the guard, readFileSync and the call of client.recognize
Handler(r) ==
    /\ pc[r] = "uploaded"
    /\ IF NoFileGuard(file[r])
       THEN /\ res' = [res EXCEPT ![r] = BadRequest]
            /\ pc' = [pc EXCEPT ![r] = "done"]
            /\ UNCHANGED <<uploads, error, doc, recognizeCalls, unlinkCalls>>
       ELSE \E readOk \in BOOLEAN :
              IF readOk
              THEN /\ recognizeCalls' = [recognizeCalls EXCEPT ![r] = @ + 1]
                   /\ pc' = [pc EXCEPT ![r] = "recognizing"]
                   /\ UNCHANGED <<uploads, error, doc, res, unlinkCalls>>
              ELSE /\ CatchBlock(r, ReadError, unlinkCalls[r])
                   /\ UNCHANGED recognizeCalls
    /\ UNCHANGED <<file, response, transcriptionText, store, now, history>>
    /\ Log(r)
    /\ UNCHANGED client

\* lines 60-72: client.recognize resolves; the text is extracted and the
\* success document is built and its save() awaited
RecognizeResolve(r) ==
    /\ pc[r] = "recognizing"
    /\ \E results \in RecognizerResults :
         /\ response' = [response EXCEPT ![r] = results]
         /\ transcriptionText' =
                [transcriptionText EXCEPT ![r] = TranscriptText(results)]
         /\ doc' = [doc EXCEPT ![r] =
                NewTranscription(r, file[r], TranscriptText(results), now)]
    /\ pc' = [pc EXCEPT ![r] = "saving"]
    /\ UNCHANGED <<file, uploads, error, res, store, now, history,
                   recognizeCalls, unlinkCalls>>
    /\ Log(r)
    /\ UNCHANGED client

\* client.recognize rejects
RecognizeReject(r) ==
    /\ pc[r] = "recognizing"
    /\ \E msg \in Msgs : CatchBlock(r, Err("recognize", msg), unlinkCalls[r])
    /\ UNCHANGED <<file, response, transcriptionText, store, now, history,
                   recognizeCalls>>
    /\ Log(r)
    /\ UNCHANGED client

\* lines 72-77: newTranscription.save() resolves, then unlinkSync and the
\* response; an unlinkSync that throws here is caught by the catch block
SaveResolve(r) ==
    /\ pc[r] = "saving"
    /\ Valid(doc[r])
    /\ store' = Append(store, doc[r])
    /\ \E deleted \in BOOLEAN :
         IF deleted
         THEN /\ uploads' = uploads \ {r}
              /\ unlinkCalls' = [unlinkCalls EXCEPT ![r] = Append(@, TRUE)]
              /\ res' = [res EXCEPT ![r] = Ok(doc[r])]
              /\ pc' = [pc EXCEPT ![r] = "done"]
              /\ UNCHANGED <<error, doc>>
         ELSE CatchBlock(r, UnlinkError, Append(unlinkCalls[r], FALSE))
    /\ UNCHANGED <<file, response, transcriptionText, now, history,
                   recognizeCalls>>
    /\ Log(r)
    /\ UNCHANGED client

\* newTranscription.save() rejects: validation, or the database
SaveReject(r) ==
    /\ pc[r] = "saving"
    /\ CatchBlock(r, IF Valid(doc[r]) THEN DbError ELSE ValidationError,
                  unlinkCalls[r])
    /\ UNCHANGED <<file, response, transcriptionText, store, now, history,
                   recognizeCalls>>
    /\ Log(r)
    /\ UNCHANGED client

\* lines 92-99: failedTranscription.save() resolves, then the 500 response
FailedSaveResolve(r) ==
    /\ pc[r] = "savingFailed"
    /\ Valid(doc[r])
    /\ store' = Append(store, doc[r])
    /\ res' = [res EXCEPT ![r] = ServerError(error[r].message)]
    /\ pc' = [pc EXCEPT ![r] = "done"]
    /\ UNCHANGED <<file, uploads, response, transcriptionText, error, doc, now,
                   history, recognizeCalls, unlinkCalls>>
    /\ Log(r)
    /\ UNCHANGED client

\* failedTranscription.save() rejects inside the catch block
FailedSaveReject(r) ==
    /\ pc[r] = "savingFailed"
    /\ Escape(r, IF Valid(doc[r]) THEN DbError ELSE ValidationError)
    /\ UNCHANGED <<file, uploads, response, transcriptionText, error, doc,
                   store, now, history, recognizeCalls, unlinkCalls>>
    /\ Log(r)
    /\ UNCHANGED client

Next ==
    \E r \in Reqs :
        \/ Upload(r)
        \/ Handler(r)
        \/ RecognizeResolve(r)
        \/ RecognizeReject(r)
        \/ SaveResolve(r)
        \/ SaveReject(r)
        \/ FailedSaveResolve(r)
        \/ FailedSaveReject(r)

Spec == Init /\ [][Next]_vars

-----------------------------------------------------------------------------
(* GET /api/history *)

Reverse(s) == [i \in 1..Len(s) |-> s[Len(s) + 1 - i]]

\* one record put in its place in a sequence sorted by date, newest first,
\* after the records of the same date
RECURSIVE InsertByDateDesc(_, _)
InsertByDateDesc(sorted, d) ==
    IF sorted = <<>> THEN <<d>>
    ELSE IF Head(sorted).date >= d.date
         THEN <<Head(sorted)>> \o InsertByDateDesc(Tail(sorted), d)
         ELSE <<d>> \o sorted

\* .sort({ date: -1 }): records of equal date keep the order of the scan
RECURSIVE SortByDateDesc(_)
SortByDateDesc(s) ==
    IF s = <<>> THEN <<>>
    ELSE InsertByDateDesc(SortByDateDesc(SubSeq(s, 1, Len(s) - 1)), s[Len(s)])

Limit_OneMore(s, n) == SubSeq(s, 1, Min(n + 1, Len(s)))

\* .limit(n)
Limit(s, n) == SubSeq(s, 1, Min(n, Len(s)))

\* the order in which find() meets the records: the collection has no index
\* on date and the sort leaves the order of equal dates to the scan; the
\* insertion order and its reverse stand for the orders a scan can take
ScanOrders(coll) == {coll, Reverse(coll)}

\* line 107
FindRecent(scan) == Limit(SortByDateDesc(scan), HistoryLimit)

\* lines 104-108
GetHistory ==
    /\ history = NoHistory
    /\ \E scan \in ScanOrders(store) : history' = HistoryOk(FindRecent(scan))
    /\ UNCHANGED <<pc, file, uploads, response, transcriptionText, error, doc,
                   res, store, now, recognizeCalls, unlinkCalls>>
    /\ UNCHANGED <<steps, client>>

\* lines 109-111: the query rejects
GetHistoryFail ==
    /\ history = NoHistory
    /\ history' = HistoryError
    /\ UNCHANGED <<pc, file, uploads, response, transcriptionText, error, doc,
                   res, store, now, recognizeCalls, unlinkCalls>>
    /\ UNCHANGED <<steps, client>>

\* the response has been delivered and the handler's locals are gone
HistoryDelivered ==
    /\ history # NoHistory
    /\ history' = NoHistory
    /\ UNCHANGED <<pc, file, uploads, response, transcriptionText, error, doc,
                   res, store, now, recognizeCalls, unlinkCalls>>
    /\ UNCHANGED <<steps, client>>

\* Date.now() advances
Tick ==
    /\ history = NoHistory
    /\ now < MaxClock
    /\ now' = now + 1
    /\ UNCHANGED <<pc, file, uploads, response, transcriptionText, error, doc,
                   res, store, history, recognizeCalls, unlinkCalls>>
    /\ UNCHANGED <<steps, client>>

HistoryFile == [present |-> TRUE, originalname |-> <<"a">>, size |-> 5 * MiB]

\* save() of a document resolves: the document was constructed, and so
\* dated, now or one tick ago, while another request's save() was awaited
Insert ==
    /\ history = NoHistory
    /\ Len(store) < MaxRecords
    /\ \E t \in {now, Max(now - 1, 0)} :
         store' = Append(store,
                    NewTranscription(Len(store) + 1, HistoryFile, <<"h">>, t))
    /\ UNCHANGED <<pc, file, uploads, response, transcriptionText, error, doc,
                   res, now, history, recognizeCalls, unlinkCalls>>
    /\ UNCHANGED <<steps, client>>

NextHistory ==
    \/ Insert
    \/ Tick
    \/ GetHistory
    \/ GetHistoryFail
    \/ HistoryDelivered

SpecHistory == Init /\ [][NextHistory]_vars

-----------------------------------------------------------------------------
(* Properties of the transcribe pipeline *)

Ended(r) == pc[r] \in {"done", "rejected"}

\* positions in the collection of the records request r persisted
RecordsOf(r) == {i \in 1..Len(store) : store[i].id[1] = r}

\* number of unlinkSync calls of request r that deleted the file
Deletions(r) == Cardinality({i \in 1..Len(unlinkCalls[r]) : unlinkCalls[r][i]})

\* C1 (as claimed): every request that carried a file has persisted exactly
\* one record when it ends; here for the requests the handler answered and
\* none of whose save() calls rejected, the others having no record that
\* could be persisted.
C1_ExactlyOneRecord ==
    \A r \in Reqs :
        file[r].present /\ pc[r] = "done" /\ error[r].by # "save" =>
            Cardinality(RecordsOf(r)) = 1

C3_OversizeRejected ==
    \A r \in Reqs :
        file[r].present /\ file[r].size > MaxUploadBytes =>
            /\ r \notin uploads
            /\ recognizeCalls[r] = 0
            /\ RecordsOf(r) = {}
            /\ Ended(r) => res[r].status = 400

\* C4 (as claimed): two requests of the same file whose recognition failed,
\* answered by the handler with a 500, receive identical response bodies
\* whatever the two upstream error messages were.
C4_SameFailureBody ==
    \A r1, r2 \in Reqs :
        /\ pc[r1] = "done" /\ res[r1].status = 500 /\ error[r1].by = "recognize"
        /\ pc[r2] = "done" /\ res[r2].status = 500 /\ error[r2].by = "recognize"
        /\ file[r1] = file[r2]
        => res[r1] = res[r2]

\* C5 (as claimed): a request whose recognition failed is answered with the
\* generic 500 when it ends, also when the append of the failure record
\* failed; here for the requests none of whose unlinkSync calls threw, so
\* that the only step left to fail is that append.
C5_AlwaysAnswered ==
    \A r \in Reqs :
        /\ Ended(r) /\ error[r].by = "recognize"
        /\ \A i \in 1..Len(unlinkCalls[r]) : unlinkCalls[r][i]
        => /\ res[r].status = 500 /\ "error" \in DOMAIN res[r]
           /\ res[r].error = GenericError

\* C6 (as claimed): a failing deletion changes no outcome: a request whose
\* success record was saved is answered with that transcript, and after a
\* failed recognition the failure record is still built and its append
\* attempted.
C6_CleanupNeverChangesOutcome ==
    \A r \in Reqs :
        Ended(r) =>
            /\ \A i \in RecordsOf(r) :
                   store[i].id[2] = "new" => res[r] = Ok(store[i])
            /\ error[r].by = "recognize" => doc[r].id = <<r, "failed">>

\* offset in the joined text of the i-th part
RECURSIVE JoinOffset(_, _)
JoinOffset(parts, i) ==
    IF i = 1 THEN 0 ELSE JoinOffset(parts, i - 1) + Len(parts[i - 1]) + 1

\* t is the parts in order, one newline between two neighbours
IsNewlineJoin(t, parts) ==
    LET n == Len(parts) IN
    /\ Len(t) = IF n = 0 THEN 0 ELSE JoinOffset(parts, n) + Len(parts[n])
    /\ \A i \in 1..n :
         /\ SubSeq(t, JoinOffset(parts, i) + 1,
                   JoinOffset(parts, i) + Len(parts[i])) = parts[i]
         /\ i < n => t[JoinOffset(parts, i) + Len(parts[i]) + 1] = "\n"

\* the first alternative of every segment is the empty transcript
AllEmpty(results) ==
    \A i \in 1..Len(results) : results[i].alternatives[1].transcript = <<>>

\* C7 (as claimed): the transcript returned and stored is the newline join of
\* the first alternatives when the result sequence is non-empty, and the
\* sentinel when it is empty.
C7_SentinelIffNoResults ==
    \A r \in Reqs : \A i \in RecordsOf(r) :
        store[i].id[2] = "new" =>
            IF response[r] = <<>>
            THEN store[i].transcription = Sentinel
            ELSE IsNewlineJoin(store[i].transcription,
                               FirstAlternatives(response[r]))

\* C7 (amended): the transcript returned equals the text of the success
\* record; that text is the newline join of the first alternatives when the
\* join is non-empty, and the sentinel when the join is empty, which is the
\* case of an empty result sequence and of a single segment whose first
\* alternative is the empty transcript.
C7_SentinelIffEmptyJoin ==
    \A r \in Reqs :
        /\ \A i \in RecordsOf(r) :
               store[i].id[2] = "new" =>
                   IF Len(response[r]) <= 1 /\ AllEmpty(response[r])
                   THEN store[i].transcription = Sentinel
                   ELSE /\ IsNewlineJoin(store[i].transcription,
                                         FirstAlternatives(response[r]))
                        /\ store[i].transcription # <<>>
        /\ res[r].status = 200 =>
               \E i \in RecordsOf(r) :
                   /\ store[i].id[2] = "new"
                   /\ res[r].transcription = store[i].transcription

\* C7 witness: a request whose recognizer returned one segment with an empty
\* transcript was answered with the sentinel.
C7_Witness ==
    \E r \in Reqs :
        /\ res[r].status = 200
        /\ Len(response[r]) = 1 /\ AllEmpty(response[r])
        /\ res[r].transcription = Sentinel

\* the failure record of request r, as the claim describes it
IsFailureRecord(d, r) ==
    LET excerpt == SubSeq(d.transcription, 2, Len(d.transcription) - 1) IN
    /\ d.audioName = file[r].originalname \o FailedMarker
    /\ Len(d.transcription) >= 2
    /\ d.transcription[1] = ErrorPrefix[1]
    /\ d.transcription[Len(d.transcription)] = Ellipsis[1]
    /\ Len(excerpt) <= 100
    /\ Len(excerpt) <= Len(error[r].message)
    /\ excerpt = SubSeq(error[r].message, 1, Len(excerpt))
    /\ Len(excerpt) < 100 => Len(excerpt) = Len(error[r].message)

\* C8: whatever the length of the error message, the failure record is built
\* (it is a valid document whose append is awaited) with audioName the
\* original file name followed by " (Failed)" and a text holding the first
\* 100 characters of the message, or all of a shorter one; every failure
\* record appended is that document.
C8_FailureRecord ==
    /\ \A r \in Reqs :
           pc[r] = "savingFailed" =>
               /\ doc[r].id = <<r, "failed">>
               /\ Valid(doc[r])
               /\ IsFailureRecord(doc[r], r)
    /\ \A i \in 1..Len(store) :
           store[i].id[2] = "failed" => IsFailureRecord(store[i], store[i].id[1])

\* C8 witness: a failure record is in the collection for a request whose
\* recognition failed with a message longer than 100 characters.
C8_Witness ==
    \E i \in 1..Len(store) :
        /\ store[i].id[2] = "failed"
        /\ error[store[i].id[1]].by = "recognize"
        /\ Len(error[store[i].id[1]].message) > 100

\* C10: a request with no file is answered with 400 and has no other effect:
\* no temporary file, no recognition call, no unlinkSync call, no document
\* built and no record persisted.
C10_NoFileNoEffect ==
    \A r \in Reqs :
        pc[r] # "idle" /\ ~file[r].present =>
            /\ pc[r] \in {"uploaded", "done"}
            /\ pc[r] = "done" => res[r] = BadRequest
            /\ pc[r] = "uploaded" => res[r] = NoResponse
            /\ r \notin uploads
            /\ recognizeCalls[r] = 0
            /\ unlinkCalls[r] = <<>>
            /\ doc[r] = NoDoc
            /\ RecordsOf(r) = {}

\* C10 witness: a request with no file has been answered with 400 while the
\* other request, with a file, is being processed.
C10_Witness ==
    \E r, q \in Reqs :
        /\ pc[r] = "done" /\ ~file[r].present /\ res[r].status = 400
        /\ file[q].present /\ pc[q] = "saving"

-----------------------------------------------------------------------------
(* Properties of the history listing *)

\* C9: the listing holds at most 10 records, they are distinct records of
\* the collection, no record left out is newer than a record listed (and none
\* is left out while fewer than 10 are listed), and they are ordered
\* non-increasing by date.
C9_HistoryRecent ==
    history.status = 200 =>
        LET h == history.body
            listed == {h[i].id : i \in 1..Len(h)}
        IN  /\ Len(h) <= 10
            /\ \A i \in 1..Len(h) : \E j \in 1..Len(store) : store[j] = h[i]
            /\ Cardinality(listed) = Len(h)
            /\ \A i \in 1..Len(h) - 1 : h[i].date >= h[i + 1].date
            /\ \A j \in 1..Len(store) :
                   store[j].id \notin listed =>
                       /\ Len(h) = 10
                       /\ \A i \in 1..Len(h) : h[i].date >= store[j].date

\* C9 witness: a listing of 10 records taken from a collection of 11 records
\* of different dates, the oldest of which is not the first inserted.
C9_Witness ==
    /\ history.status = 200
    /\ Len(history.body) = 10
    /\ Len(store) = 11
    /\ \E j \in 2..Len(store) :
           /\ store[j].date < store[1].date
           /\ \A i \in 1..Len(history.body) : history.body[i].id # store[j].id

-----------------------------------------------------------------------------
(* Order of the steps, fabricated records, concurrency *)

\* position of the first step s of request r, 0 when it took no such step
StepAt(r, s) ==
    IF \E i \in 1..Len(steps[r]) : steps[r][i] = s
    THEN CHOOSE i \in 1..Len(steps[r]) :
             steps[r][i] = s /\ \A j \in 1..(i - 1) : steps[r][j] # s
    ELSE 0

\* request r took step a and later step b
Before(r, a, b) == 0 < StepAt(r, a) /\ StepAt(r, a) < StepAt(r, b)

\* C11 (as claimed): a request with a file answered with the transcript has
\* appended its success record, then deleted its file, then responded; one
\* answered with the generic error has deleted its file, then appended its
\* failure record, then responded; here for the requests none of whose
\* unlinkSync calls threw.
C11_RecordAndCleanupBeforeResponse ==
    \A r \in Reqs :
        /\ pc[r] = "done" /\ file[r].present
        /\ \A i \in 1..Len(unlinkCalls[r]) : unlinkCalls[r][i]
        =>  IF res[r].status = 200
            THEN Before(r, "appendNew", "unlink") /\ Before(r, "unlink", "respond")
            ELSE /\ Before(r, "unlink", "appendFailed")
                 /\ Before(r, "appendFailed", "respond")

\* C11 (amended): the response is the last step of the handler and follows
\* the deletion of the file.  On success the steps are: success record
\* appended, file deleted, transcript returned.  After a failed read or
\* recognition they are: file deleted, failure record appended, generic
\* error returned.  A generic error sent for another failure (save() of the
\* success record rejected, unlinkSync threw after it) follows the deletion;
\* a failure record is appended before it, after the deletion, only when the
\* transcript text was empty.
C11_StepsInOrder ==
    \A r \in Reqs :
        pc[r] = "done" /\ file[r].present =>
            /\ StepAt(r, "respond") = Len(steps[r])
            /\ Before(r, "unlink", "respond")
            /\ res[r].status = 200 =>
                   steps[r] = <<"appendNew", "unlink", "respond">>
            /\ error[r].by \in {"readFileSync", "recognize"} =>
                   steps[r] = <<"unlink", "appendFailed", "respond">>
            /\ StepAt(r, "appendFailed") > 0 =>
                   /\ Before(r, "unlink", "appendFailed")
                   /\ transcriptionText[r] = <<>>
            /\ res[r].status = 500 /\ transcriptionText[r] # <<>> =>
                   StepAt(r, "appendFailed") = 0

\* C11 witness: a request whose recognition failed was answered after the
\* deletion and the append of the failure record, while the other request
\* was answered with its transcript.
C11_Witness ==
    \E r, q \in Reqs :
        /\ pc[r] = "done" /\ error[r].by = "recognize"
        /\ steps[r] = <<"unlink", "appendFailed", "respond">>
        /\ pc[q] = "done" /\ res[q].status = 200
        /\ steps[q] = <<"appendNew", "unlink", "respond">>

\* C12 (as claimed): a request whose recognition succeeded and whose success
\* record could not be saved persists no record, is answered with the 500
\* and leaves no temporary file.
C12_NoFabricatedRecord ==
    \A r \in Reqs :
        error[r].by = "save" =>
            /\ RecordsOf(r) = {}
            /\ pc[r] = "done" => res[r].status = 500 /\ r \notin uploads

\* C13: every record persisted has a non-empty audioName and a non-empty
\* transcription, and so has every document the handler builds: no request
\* produces an empty value for either field.
C13_NonEmptyFields ==
    /\ \A i \in 1..Len(store) :
           store[i].audioName # <<>> /\ store[i].transcription # <<>>
    /\ \A r \in Reqs :
           pc[r] \in {"saving", "savingFailed"} =>
               doc[r].audioName # <<>> /\ doc[r].transcription # <<>>

\* C13 witness: the collection holds the record of a recognition that
\* returned no text and the failure record of an empty error message.
C13_Witness ==
    \E i, j \in 1..Len(store) :
        /\ store[i].id[2] = "new" /\ response[store[i].id[1]] = <<>>
        /\ store[j].id[2] = "failed"
        /\ error[store[j].id[1]] = Err("recognize", <<>>)

\* C14 (as claimed): when all requests have ended, every temporary file is
\* gone and the collection has one record for each request that carried a
\* file, each record with the file name of its request; here for the runs in
\* which the handler answered every request and no save() rejected.
C14_OneRecordEach ==
    (\A r \in Reqs : pc[r] = "done" /\ error[r].by # "save") =>
        /\ uploads = {}
        /\ Len(store) = Cardinality({r \in Reqs : file[r].present})
        /\ \A i \in 1..Len(store) :
               store[i].audioName \in
                   { file[store[i].id[1]].originalname,
                     file[store[i].id[1]].originalname \o FailedMarker }

\* the recognizer's result for request r has a non-empty text
HasText(r) == ~(Len(response[r]) <= 1 /\ AllEmpty(response[r]))

\* C16: no failure record is built or persisted for a request whose
\* recognition produced a non-empty text, whatever fails later.
C16_NoFailureRecordAfterText ==
    \A r \in Reqs :
        HasText(r) =>
            /\ doc[r].id[2] # "failed"
            /\ \A i \in RecordsOf(r) : store[i].id[2] # "failed"

\* C16 witness: a request with a non-empty text whose unlinkSync threw after
\* the save has ended with a 500 and only its success record, and another
\* whose save() rejected has ended with a 500 and no record.
C16_Witness ==
    \E r, q \in Reqs :
        /\ HasText(r) /\ pc[r] = "done" /\ error[r].by = "unlinkSync"
        /\ res[r].status = 500 /\ Cardinality(RecordsOf(r)) = 1
        /\ HasText(q) /\ pc[q] = "done" /\ error[q].by = "save"
        /\ res[q].status = 500 /\ RecordsOf(q) = {}

-----------------------------------------------------------------------------
(* The client: events of the component App *)

serverVars == <<pc, file, uploads, response, transcriptionText, error, doc,
                res, store, now, history, recognizeCalls, unlinkCalls, steps>>

\* the user chooses a file, or closes the dialog without one
SelectFile ==
    /\ \E f \in Selections : client' = HandleFileChange(client, f)
    /\ UNCHANGED serverVars

\* the user presses the submit button
Submit ==
    /\ SubmitEnabled(client)
    /\ Len(client.posted) < MaxPosts
    /\ client' = HandleSubmit(client)
    /\ UNCHANGED serverVars

\* axios.post resolves: lines 61-65 and the finally block
PostResolve ==
    /\ client.posting > 0
    /\ \E text \in PostTexts :
         client' = [client EXCEPT !.transcription = text,
                                  !.audioFile = NullFile,
                                  !.fetching = @ + 1,
                                  !.loading = FALSE,
                                  !.posting = @ - 1,
                                  !.last = "postResolved"]
    /\ UNCHANGED serverVars

\* axios.post rejects: lines 66-69 and the finally block
PostReject ==
    /\ client.posting > 0
    /\ \E e \in PostErrors :
         client' = [client EXCEPT !.error = OrElse(e, UnknownError),
                                  !.loading = FALSE,
                                  !.posting = @ - 1,
                                  !.last = "postRejected"]
    /\ UNCHANGED serverVars

\* axios.get('/api/history') resolves
FetchResolve ==
    /\ client.fetching > 0
    /\ client' = [client EXCEPT !.history = Listing, !.fetching = @ - 1,
                                !.last = "historyLoaded"]
    /\ UNCHANGED serverVars

\* axios.get('/api/history') rejects
FetchReject ==
    /\ client.fetching > 0
    /\ client' = [client EXCEPT !.error = HistoryLoadError, !.fetching = @ - 1,
                                !.last = "historyFailed"]
    /\ UNCHANGED serverVars

NextClient ==
    \/ SelectFile
    \/ Submit
    \/ PostResolve
    \/ PostReject
    \/ FetchResolve
    \/ FetchReject

SpecClient == Init /\ [][NextClient]_vars

\* C17: every file posted, and the file audioFile holds, is a file of at most
\* 10 MiB; choosing a larger file leaves audioFile null and the size error
\* set; handleSubmit run with no file sets its error and sends nothing.
C17_PostOnlyAllowedFile ==
    /\ \A i \in 1..Len(client.posted) :
           client.posted[i].kind = "file" /\ client.posted[i].size <= 10 * 1024 * 1024
    /\ client.audioFile.kind = "file" => client.audioFile.size <= 10 * 1024 * 1024
    /\ client.last = "fileRejected" =>
           client.audioFile = NullFile /\ client.error = SizeError
    /\ client.audioFile.kind # "file" =>
           /\ HandleSubmit(client).error = NoFileSelected
           /\ HandleSubmit(client).posted = client.posted
           /\ HandleSubmit(client).posting = client.posting
           /\ HandleSubmit(client).loading = client.loading

\* C17 witness: a file of exactly 10 MiB has been posted, and a larger file
\* chosen afterwards has been refused.
C17_Witness ==
    /\ Len(client.posted) >= 1
    /\ client.posted[1].size = 10 * 1024 * 1024
    /\ client.last = "fileRejected"
    /\ client.audioFile = NullFile

\* C18: loading is true exactly while a POST is awaited, at most one at a
\* time; when the POST has rejected the error is non-empty and the
\* transcription is empty.
C18_LoadingWhilePosting ==
    /\ client.posting \in {0, 1}
    /\ client.loading <=> client.posting = 1
    /\ client.last = "submitted" => client.loading
    /\ client.last \in {"postResolved", "postRejected"} => ~client.loading
    /\ client.last = "postRejected" =>
           client.error # <<>> /\ client.transcription = <<>>

\* C18 witness: a second POST has rejected, after a first that resolved.
C18_Witness ==
    /\ client.last = "postRejected"
    /\ Len(client.posted) = 2
    /\ client.history = Listing
    /\ ~client.loading

\* C15 (as claimed): in the listing, records of equal date are in the reverse
\* of their insertion order, the most recently inserted first.
C15_TiesNewestInsertionFirst ==
    history.status = 200 =>
        \A i, j \in 1..Len(history.body) :
            i < j /\ history.body[i].date = history.body[j].date =>
                \E m, n \in 1..Len(store) :
                    /\ store[m] = history.body[i]
                    /\ store[n] = history.body[j]
                    /\ m > n

====
